---- MODULE Spec2Model ----
(***************************************************************************)
(* Food ordering application (src/food_ordering_app.py): the SQLite store, *)
(* the in-memory cart and the handlers of the Menu, Cart and Admin tabs.   *)
(*                                                                         *)
(* The application is single-threaded; every dialog is modal, so a handler *)
(* that has opened a dialog is the only one that can make progress.  The   *)
(* checkout handler place_order_flow is cut at its blocking dialogs and at *)
(* the statements the store can raise in; pc holds its position.           *)
(***************************************************************************)
EXTENDS Integers, Sequences, FiniteSets, TLC

VARIABLES
    db,         \* the committed contents of projects.db
    conn,       \* place_order_flow's connection: its uncommitted view, or Closed
    cart,       \* App.cart, a sequence of line items
    food_tree,  \* rows of the Menu tab's food Treeview, by foodid
    cart_tree,  \* rows of the Cart tab's Treeview (iid = position)
    total_var,  \* the total shown under the cart
    pc,         \* position of place_order_flow ("idle": no handler is running)
    custid,     \* place_order_flow's local custid (None outside the handler)
    ordid,      \* place_order_flow's local ordid (None outside the handler)
    create      \* place_order_flow's local create: TRUE once 'Create a new
                \* customer now?' is answered Yes (FALSE outside the handler)

vars == <<db, conn, cart, food_tree, cart_tree, total_var, pc, custid, ordid, create>>

----------------------------------------------------------------------------
(* Bounds of the model. *)

\* longest cart the model builds
MaxCart == 2
\* most order rows the model lets the store hold
MaxOrders == 1
\* most customers created at checkout
MaxNewCustomers == 1
\* most times init_db seeds the customer table, the first run included
MaxSeedings == 2

\* quantities the user types in the quantity dialog of a food, of a drink
QtyInputs == {2}
DrinkQtyInputs == {3}
\* integers the conversions below know the numerals of
NumeralRange == -2 .. 20

----------------------------------------------------------------------------
(* Python values. None is Python's None / SQL NULL; Some(v) a present value. *)

None == <<>>
Some(v) == <<v>>
Val(o) == o[1]

\* str(x) / f"{x}" of an int or None
Fmt(o) == IF o = None THEN "None" ELSE ToString(Val(o))

\* int(s) / float(s) of a string holding an integer numeral: the number, or
\* None where Python raises ValueError
ParseInt(s) ==
    IF \E n \in NumeralRange : ToString(n) = s
    THEN Some(CHOOSE n \in NumeralRange : ToString(n) = s)
    ELSE None

Max0(n) == IF n < 0 THEN 0 ELSE n

RECURSIVE SeqSum(_)
SeqSum(s) == IF s = <<>> THEN 0 ELSE Head(s) + SeqSum(Tail(s))

----------------------------------------------------------------------------
(* The store. Tables the handlers below neither read nor write (cuisine,   *)
(* employee, chef, ingredient) are left out, as are the name and           *)
(* availability columns, which no handler branches on.                     *)

\* seed rows of food: foodid -> price, quantity (the first of the five rows)
SeedFood == (1 :> [price |-> Some(12), quantity |-> Some(20)])

\* seed rows of drink: drinkid -> price (the first of the five rows)
SeedDrink == (1 :> [price |-> Some(2)])

\* seed rows of delivery: the delids
SeedDelivery == 1 .. 5

\* seed rows of customer: AUTOINCREMENT gives them custid 1..5
SeedCustomer == 1 .. 5

\* projects.db before the first run: CREATE TABLE IF NOT EXISTS has made the
\* tables and none has a row
NewFile ==
    [ customer |-> {},
      custseq  |-> 0,
      food     |-> <<>>,
      drink    |-> <<>>,
      delivery |-> {},
      orders   |-> <<>>,
      ordseq   |-> 0,
      payment  |-> <<>>,
      payseq   |-> 0 ]

\* every table taken for empty
empty_Always(keys) == TRUE

\* empty(table): SELECT COUNT(*) FROM table is 0, keys being the primary keys held
empty(keys) == keys = {}

\* INSERT of rows with explicit primary keys raises sqlite3.IntegrityError when
\* one of the keys is already held
InsertRaises(keys, seedkeys) == keys \cap seedkeys # {}

\* init_db on store raises: one of its seeding INSERTs does
init_db_raises(store) ==
    \/ empty(DOMAIN store.food) /\ InsertRaises(DOMAIN store.food, DOMAIN SeedFood)
    \/ empty(DOMAIN store.drink) /\ InsertRaises(DOMAIN store.drink, DOMAIN SeedDrink)
    \/ empty(store.delivery) /\ InsertRaises(store.delivery, SeedDelivery)

\* the custids AUTOINCREMENT gives the sample customers inserted into store
SeedCustomerIds(store) == { store.custseq + i : i \in SeedCustomer }

\* init_db on store, when no INSERT raises: each table is seeded if empty(table)
init_db_on(store) ==
    [ store EXCEPT
        !.food     = IF empty(DOMAIN store.food) THEN SeedFood @@ @ ELSE @,
        !.drink    = IF empty(DOMAIN store.drink) THEN SeedDrink @@ @ ELSE @,
        !.delivery = IF empty(store.delivery) THEN @ \cup SeedDelivery ELSE @,
        !.customer = IF empty(store.customer) THEN @ \cup SeedCustomerIds(store) ELSE @,
        !.custseq  = IF empty(store.customer) THEN @ + Cardinality(SeedCustomer) ELSE @ ]

\* the store init_db leaves behind on the first run
init_db == init_db_on(NewFile)

\* the connection of a handler that holds none
Closed == [ closed |-> TRUE ]

----------------------------------------------------------------------------
(* Menu tab *)

\* load_menu: one row per food, price formatted, quantity as Tk shows it
load_menu(store) ==
    [ f \in DOMAIN store.food |->
        [ price |-> Fmt(store.food[f].price), qty |-> Fmt(store.food[f].quantity) ] ]

\* rows of the drink Treeview (the drink table is never written)
drink_tree == [ d \in DOMAIN SeedDrink |-> [ price |-> Fmt(SeedDrink[d].price) ] ]

\* update_cart_view: the rows shown
CartViewRows(c) ==
    [ i \in 1 .. Len(c) |-> [ price |-> c[i].price, qty |-> c[i].qty,
                              subtotal |-> c[i].price * c[i].qty ] ]

\* update_cart_view with the quantity left out of the subtotal
RECURSIVE CartViewTotal_NoQty(_)
CartViewTotal_NoQty(c) ==
    IF c = <<>> THEN 0
    ELSE CartViewTotal_NoQty(SubSeq(c, 1, Len(c) - 1)) + c[Len(c)].price

\* update_cart_view: the total accumulated over the lines
RECURSIVE CartViewTotal(_)
CartViewTotal(c) ==
    IF c = <<>> THEN 0
    ELSE LET item == c[Len(c)]
         IN  CartViewTotal(SubSeq(c, 1, Len(c) - 1)) + item.price * item.qty

update_cart_view(c) ==
    /\ cart_tree' = CartViewRows(c)
    /\ total_var' = CartViewTotal(c)

\* the quantity on_food_add lets the dialog accept at most
FoodMaxQ(qty_avail) == IF ParseInt(qty_avail) = None THEN 50 ELSE Val(ParseInt(qty_avail))

\* the line on_food_add appends
FoodLine(fid, price, q) == [ typ |-> "food", id |-> fid, price |-> Val(ParseInt(price)), qty |-> q ]

\* on_food_add: double-click on food row fid, quantity q typed and accepted.
\* A cancelled dialog returns None and changes nothing.
on_food_add(fid, q) ==
    /\ pc = "idle"
    /\ Len(cart) < MaxCart
    /\ fid \in DOMAIN food_tree
    /\ 1 <= q /\ q <= FoodMaxQ(food_tree[fid].qty)
    /\ IF ParseInt(food_tree[fid].price) = None
       THEN \* float('None') raises ValueError before the append
            UNCHANGED <<cart, cart_tree, total_var>>
       ELSE /\ cart' = Append(cart, FoodLine(fid, food_tree[fid].price, q))
            /\ update_cart_view(cart')
    /\ UNCHANGED <<db, conn, food_tree, pc, custid, ordid, create>>

\* the line on_drink_add appends
DrinkLine(did, price, q) == [ typ |-> "drink", id |-> did, price |-> Val(ParseInt(price)), qty |-> q ]

\* on_drink_add: double-click on drink row did, quantity q (1..20) accepted
on_drink_add(did, q) ==
    /\ pc = "idle"
    /\ Len(cart) < MaxCart
    /\ did \in DOMAIN drink_tree
    /\ 1 <= q /\ q <= 20
    /\ cart' = Append(cart, DrinkLine(did, drink_tree[did].price, q))
    /\ update_cart_view(cart')
    /\ UNCHANGED <<db, conn, food_tree, pc, custid, ordid, create>>

----------------------------------------------------------------------------
(* Cart tab *)

\* list.pop(idx): a negative idx counts from the end of the list
Pop(c, idx) ==
    LET k == IF idx < 0 THEN idx + Len(c) ELSE idx
    IN  [ i \in 1 .. Len(c) - 1 |-> IF i <= k THEN c[i] ELSE c[i + 1] ]

\* the range test without its lower bound
InRange_NoLower(idx, n) == idx < n

\* 0 <= idx < len(self.cart)
InRange(idx, n) == 0 <= idx /\ idx < n

\* remove_selected_cart with the row of iid sel selected in the cart Treeview
\* (no selection returns at once)
remove_selected_cart(sel) ==
    /\ pc = "idle"
    /\ LET idx == sel - 1
       IN  IF InRange(idx, Len(cart))
           THEN /\ cart' = Pop(cart, idx)
                /\ update_cart_view(cart')
           ELSE UNCHANGED <<cart, cart_tree, total_var>>
    /\ UNCHANGED <<db, conn, food_tree, pc, custid, ordid, create>>

clear_cart ==
    /\ pc = "idle"
    /\ cart' = <<>>
    /\ update_cart_view(cart')
    /\ UNCHANGED <<db, conn, food_tree, pc, custid, ordid, create>>

----------------------------------------------------------------------------
(* Checkout: place_order_flow *)

\* INSERT INTO customer: AUTOINCREMENT never reuses a custid
InsertCustomer(store) ==
    [ store EXCEPT !.customer = @ \cup {store.custseq + 1},
                   !.custseq  = @ + 1 ]

\* the check with the phone left out
FieldsGiven_NoPhone(fname, lname, phone, address) ==
    fname # "" /\ lname # "" /\ address # ""

\* the check of the four required fields of a new customer
FieldsGiven(fname, lname, phone, address) ==
    fname # "" /\ lname # "" /\ phone # "" /\ address # ""

\* the message boxes a rejected checkout stops at
RejectBoxes == {"box Empty", "box Error", "box Not found"}

\* Lines 407-441. cust_in: the customer id typed (None: dialog left blank or
\* cancelled); create_in: the answer to "Create a new customer now?"; fields: the
\* answers of the four new-customer dialogs ("": blank or cancelled).
\* A rejection stops at its message box with nothing else done.
place_order_flow_customer(cust_in, create_in, fields) ==
    /\ pc = "idle"
    /\ Len(db.orders) < MaxOrders
    /\ IF cart = <<>>
       THEN /\ pc' = "box Empty"
            /\ UNCHANGED <<db, conn, custid, create>>
       ELSE IF cust_in = None
       THEN IF ~create_in
            THEN UNCHANGED <<db, conn, pc, custid, create>>
            ELSE IF ~FieldsGiven(fields[1], fields[2], fields[3], fields[4])
            THEN /\ pc' = "box Error"
                 /\ create' = TRUE
                 /\ UNCHANGED <<db, conn, custid>>
            ELSE /\ db.custseq < Cardinality(SeedCustomer) + MaxNewCustomers
                 /\ db' = InsertCustomer(db)
                 /\ conn' = db'
                 /\ custid' = Some(db'.custseq)
                 /\ create' = TRUE
                 /\ pc' = "delivery"
       ELSE IF Val(cust_in) \notin db.customer
       THEN /\ pc' = "box Not found"
            /\ UNCHANGED <<db, conn, custid, create>>
       ELSE /\ conn' = db
            /\ custid' = cust_in
            /\ pc' = "delivery"
            /\ UNCHANGED <<db, create>>
    /\ UNCHANGED <<cart, food_tree, cart_tree, total_var, ordid>>

\* the message box of a rejected checkout is dismissed and the handler returns
place_order_flow_rejected ==
    /\ pc \in RejectBoxes
    /\ pc' = "idle"
    /\ create' = FALSE
    /\ UNCHANGED <<db, conn, cart, food_tree, cart_tree, total_var, custid, ordid>>

\* the total taken over the food lines alone
TotalCost_FoodOnly(c) ==
    SeqSum([ i \in 1 .. Len(c) |-> IF c[i].typ = "food" THEN c[i].price * c[i].qty ELSE 0 ])

\* sum(item[3] * item[4] for item in self.cart)
TotalCost(c) == SeqSum([ i \in 1 .. Len(c) |-> c[i].price * c[i].qty ])

\* the id of the last line of the kind instead of the first
LastId(c, typ) ==
    IF \E i \in 1 .. Len(c) : c[i].typ = typ
    THEN LET i == CHOOSE k \in 1 .. Len(c) :
                    /\ c[k].typ = typ
                    /\ \A j \in k + 1 .. Len(c) : c[j].typ # typ
         IN  Some(c[i].id)
    ELSE None

\* next((it for it in self.cart if it[0] == typ), None), then its id
FirstId(c, typ) ==
    IF \E i \in 1 .. Len(c) : c[i].typ = typ
    THEN LET i == CHOOSE k \in 1 .. Len(c) :
                    /\ c[k].typ = typ
                    /\ \A j \in 1 .. k - 1 : c[j].typ # typ
         IN  Some(c[i].id)
    ELSE None

\* the row place_order_flow inserts into orders
OrderRow(store, c, delid) ==
    [ ordid     |-> store.ordseq + 1,
      totalcost |-> TotalCost(c),
      foodid    |-> FirstId(c, "food"),
      drinkid   |-> FirstId(c, "drink"),
      delid     |-> delid ]

\* the foreign keys of an orders row (PRAGMA foreign_keys = ON)
OrderFKOk(store, row) ==
    /\ row.foodid = None \/ Val(row.foodid) \in DOMAIN store.food
    /\ row.drinkid = None \/ Val(row.drinkid) \in DOMAIN store.drink
    /\ row.delid = None \/ Val(row.delid) \in store.delivery

InsertOrder(store, row) ==
    [ store EXCEPT !.orders = Append(@, row), !.ordseq = row.ordid ]

\* the delivery reference: None when the catalog is empty, else the choice
DeliveryRef(store, choice) == IF store.delivery = {} THEN None ELSE choice

\* Lines 442-466: the delivery dialog and the insert of the order row.
\* choice: the delivery id typed, or None when the dialog is cancelled.
place_order_flow_delivery(choice) ==
    /\ pc = "delivery"
    /\ IF conn.delivery # {} /\ choice = None
       THEN \* conn.close(); return
            /\ conn' = Closed
            /\ pc' = "idle"
            /\ custid' = None
            /\ ordid' = None
            /\ create' = FALSE
       ELSE LET row == OrderRow(conn, cart, DeliveryRef(conn, choice))
            IN  IF OrderFKOk(conn, row)
                THEN /\ conn' = InsertOrder(conn, row)
                     /\ ordid' = Some(row.ordid)
                     /\ pc' = "payment"
                     /\ UNCHANGED <<custid, create>>
                ELSE \* sqlite3.IntegrityError: line 466 is not reached
                     /\ pc' = "raised"
                     /\ UNCHANGED <<conn, custid, ordid, create>>
    /\ UNCHANGED <<db, cart, food_tree, cart_tree, total_var>>

\* the payment method stored: the answer, or 'Cash' when blank or cancelled
PayMethod(answer) == IF answer = "" THEN "Cash" ELSE answer

InsertPayment(store, paymethod, cust, ord) ==
    [ store EXCEPT !.payment = Append(@, [ payid |-> store.payseq + 1, paymethod |-> paymethod,
                                            custid |-> cust, ordid |-> ord ]),
                   !.payseq  = @ + 1 ]

\* the quantity written back without the clamp of lines 481-482
NewQty_NoClamp(stock, qty) == (IF stock = None THEN 0 ELSE Val(stock)) - qty

\* lines 479-482: the quantity written back for one line
NewQty(stock, qty) ==
    LET current == IF stock = None THEN 0 ELSE Val(stock)
    IN  Max0(current - qty)

\* lines 474-483: one pass of the stock loop
UpdateStock(food, it) ==
    IF it.typ = "food" /\ it.id \in DOMAIN food
    THEN [ food EXCEPT ![it.id].quantity = Some(NewQty(@, it.qty)) ]
    ELSE food

\* lines 473-483: the stock loop over the cart, in cart order
RECURSIVE StockLoop(_, _)
StockLoop(food, c) ==
    IF c = <<>> THEN food ELSE StockLoop(UpdateStock(food, Head(c)), Tail(c))

\* what the connection holds when conn.commit() is reached
Placed(store, c, answer, cust, ord) ==
    [ InsertPayment(store, PayMethod(answer), cust, ord) EXCEPT !.food = StockLoop(@, c) ]

\* Lines 468-488: the payment dialog, the payment insert, the stock loop and
\* conn.commit(); the 'Order Placed' box is then open.
place_order_flow_payment(answer) ==
    /\ pc = "payment"
    /\ db' = Placed(conn, cart, answer, Val(custid), Val(ordid))
    /\ conn' = Closed
    /\ pc' = "placed"
    /\ UNCHANGED <<cart, food_tree, cart_tree, total_var, custid, ordid, create>>

\* the store if every statement were committed as it ran
AfterFailure_Autocommit(committed, pending) == pending

\* What the store holds once a statement of lines 470-485 has raised: the
\* connection runs with sqlite3's default isolation level, so the inserts and
\* updates since the last commit are one open transaction, and the exception
\* leaves the handler before conn.commit() is reached.
AfterFailure(committed, pending) == committed

\* A statement after the order insert (the payment insert, a stock update,
\* the commit) raises sqlite3.Error.
place_order_flow_failure ==
    /\ pc = "payment"
    /\ db' = AfterFailure(db, conn)
    /\ pc' = "raised"
    /\ UNCHANGED <<conn, cart, food_tree, cart_tree, total_var, custid, ordid, create>>

\* The exception has left place_order_flow (Tk reports it and goes on); the
\* connection is dropped with its transaction open, which rolls it back.
\* (Tk keeps the traceback, and with it the connection, until the next
\* uncaught exception; until then a write by another handler can fail with
\* 'database is locked', which changes nothing and is a stuttering step here.)
place_order_flow_raised ==
    /\ pc = "raised"
    /\ conn' = Closed
    /\ pc' = "idle"
    /\ custid' = None
    /\ ordid' = None
    /\ create' = FALSE
    /\ UNCHANGED <<db, cart, food_tree, cart_tree, total_var>>

\* the end of the handler without self.cart = []
place_order_flow_finish_KeepsCart ==
    /\ pc = "placed"
    /\ update_cart_view(cart)
    /\ food_tree' = load_menu(db)
    /\ pc' = "idle"
    /\ custid' = None
    /\ ordid' = None
    /\ create' = FALSE
    /\ UNCHANGED <<db, conn, cart>>

\* Lines 489-491, once the 'Order Placed' box is dismissed
place_order_flow_finish ==
    /\ pc = "placed"
    /\ cart' = <<>>
    /\ update_cart_view(cart')
    /\ food_tree' = load_menu(db)
    /\ pc' = "idle"
    /\ custid' = None
    /\ ordid' = None
    /\ create' = FALSE
    /\ UNCHANGED <<db, conn>>

----------------------------------------------------------------------------
(* Admin tab *)

\* DELETE FROM customer with the foreign keys not enforced
DeleteCustomers_NoCascade(store) == [ store EXCEPT !.customer = {} ]

\* DELETE FROM customer, with the ON DELETE CASCADE of payment.custid (no
\* delivery row has a custid, so the cascade stops at payment)
DeleteCustomers(store) ==
    [ store EXCEPT !.customer = {},
                   !.payment  = SelectSeq(@, LAMBDA p : p.custid \notin store.customer) ]

\* reset_customers, confirmed (declining the confirmation returns at once)
reset_customers ==
    /\ pc = "idle"
    /\ db' = DeleteCustomers(db)
    /\ UNCHANGED <<conn, cart, food_tree, cart_tree, total_var, pc, custid, ordid, create>>

\* lines 556-566: an entry of a numeric column, cleaned
CleanInt(v) == IF v \in {"", "None"} THEN None ELSE ParseInt(v)

\* the rowid SQLite gives a food row inserted with foodid NULL
NextFoodId(store) ==
    LET ids == DOMAIN store.food
    IN  IF ids = {} THEN 1 ELSE (CHOOSE m \in ids : \A k \in ids : k <= m) + 1

\* add_food: the Add button of the add-food form, with the entries of
\* foodid, price and quantity as typed (the other entries left blank)
add_food(e_foodid, e_price, e_quantity) ==
    /\ pc = "idle"
    /\ LET given == CleanInt(e_foodid)
           fid   == IF given = None THEN NextFoodId(db) ELSE Val(given)
       IN  IF fid \in DOMAIN db.food
           THEN \* sqlite3.IntegrityError (primary key), caught and shown
                UNCHANGED <<db, food_tree>>
           ELSE /\ db' = [ db EXCEPT !.food = @ @@ (fid :> [ price |-> CleanInt(e_price),
                                                              quantity |-> CleanInt(e_quantity) ]) ]
                /\ food_tree' = load_menu(db')
    /\ UNCHANGED <<conn, cart, cart_tree, total_var, pc, custid, ordid, create>>

----------------------------------------------------------------------------
(* Start of the program *)

\* the highest custid the model lets AUTOINCREMENT hand out
MaxCustSeq == MaxSeedings * Cardinality(SeedCustomer) + MaxNewCustomers

\* the window is closed and the program started again: init_db on the store
\* the last run left, then App(root) with an empty cart and the menu loaded.
\* An exception out of init_db ends the process before a window exists.
main ==
    /\ pc = "idle"
    /\ empty(db.customer) => db.custseq + Cardinality(SeedCustomer) <= MaxCustSeq
    /\ IF init_db_raises(db)
       THEN /\ pc' = "exit"
            /\ food_tree' = <<>>
            /\ UNCHANGED db
       ELSE /\ db' = init_db_on(db)
            /\ food_tree' = load_menu(db')
            /\ UNCHANGED pc
    /\ cart' = <<>>
    /\ cart_tree' = <<>>
    /\ total_var' = 0
    /\ UNCHANGED <<conn, custid, ordid, create>>

\* what the admin types into the add-food form
FoodEntries == { <<"6", "5", "2">>, <<"6", "5", "">>, <<"6", "5", "-1">>, <<"6", "abc", "2">>,
                 <<"1", "5", "1">> }

\* what the user answers in the checkout dialogs: the customer id typed, the
\* answer to "Create a new customer now?", the four new-customer fields
NoFields == <<"", "", "", "">>
CustomerInputs ==
    { <<Some(1), FALSE, NoFields>>,
      <<Some(6), FALSE, NoFields>>,
      <<None, FALSE, NoFields>>,
      <<None, TRUE, <<"Asha", "Rao", "5550000", "1 Hill Rd">> >>,
      <<None, TRUE, <<"Asha", "Rao", "", "1 Hill Rd">> >>,
      <<None, TRUE, <<"", "Rao", "5550000", "1 Hill Rd">> >> }
DeliveryInputs == {None, Some(1), Some(9)}
PaymentInputs == {"", "Cash"}

----------------------------------------------------------------------------
Init ==
    /\ db = init_db
    /\ conn = Closed
    /\ cart = <<>>
    /\ food_tree = load_menu(init_db)
    /\ cart_tree = <<>>
    /\ total_var = 0
    /\ pc = "idle"
    /\ custid = None
    /\ ordid = None
    /\ create = FALSE

Next ==
    \/ \E fid \in DOMAIN food_tree, q \in QtyInputs : on_food_add(fid, q)
    \/ \E did \in DOMAIN drink_tree, q \in DrinkQtyInputs : on_drink_add(did, q)
    \/ \E sel \in DOMAIN cart_tree : remove_selected_cart(sel)
    \/ clear_cart
    \/ \E i \in CustomerInputs : place_order_flow_customer(i[1], i[2], i[3])
    \/ place_order_flow_rejected
    \/ \E choice \in DeliveryInputs : place_order_flow_delivery(choice)
    \/ \E answer \in PaymentInputs : place_order_flow_payment(answer)
    \/ place_order_flow_failure
    \/ place_order_flow_raised
    \/ place_order_flow_finish
    \/ reset_customers
    \/ \E e \in FoodEntries : add_food(e[1], e[2], e[3])
    \/ main

Spec == Init /\ [][Next]_vars

----------------------------------------------------------------------------
(* remove_selected_cart applied to any full cart and any row iid: the handler
   computes int(sel[0]) - 1 from whatever iid the selection holds *)

\* the lines a cart can hold: the seeded food and drink and an added food
RemoveLines ==
    { [ typ |-> "food", id |-> 1, price |-> 12, qty |-> q ] : q \in 1 .. 4 } \cup
    { [ typ |-> "food", id |-> 6, price |-> 5, qty |-> q ] : q \in 1 .. 4 } \cup
    { [ typ |-> "drink", id |-> 1, price |-> 2, qty |-> q ] : q \in 1 .. 4 }

\* the row iids handed to the handler: iid 0 gives idx -1, iid MaxCart + 1 gives
\* idx len(cart) on a full cart
RemoveSelections == 0 .. MaxCart + 1

InitRemove ==
    /\ db = init_db
    /\ conn = Closed
    /\ cart \in [ 1 .. MaxCart -> RemoveLines ]
    /\ food_tree = load_menu(init_db)
    /\ cart_tree = CartViewRows(cart)
    /\ total_var = CartViewTotal(cart)
    /\ pc = "idle"
    /\ custid = None
    /\ ordid = None
    /\ create = FALSE

NextRemove == \E sel \in RemoveSelections : remove_selected_cart(sel)

SpecRemove == InitRemove /\ [][NextRemove]_vars

----------------------------------------------------------------------------
(* Properties *)

\* sum of unit price x quantity over the lines of c
LineSum(c) ==
    LET S[n \in 0 .. Len(c)] == IF n = 0 THEN 0 ELSE S[n - 1] + c[n].price * c[n].qty
    IN  S[Len(c)]

\* the rows of a table kept as a sequence
Rows(t) == { t[i] : i \in 1 .. Len(t) }

\* the food lines of c for food f, and their summed quantity
FoodLinesOf(c, f) == { i \in 1 .. Len(c) : c[i].typ = "food" /\ c[i].id = f }
RECURSIVE QtySum(_, _)
QtySum(c, I) ==
    IF I = {} THEN 0 ELSE LET i == CHOOSE k \in I : TRUE IN c[i].qty + QtySum(c, I \ {i})

\* a stock quantity as a number, an absent one counting as 0
StockNum(q) == IF q = None THEN 0 ELSE Val(q)

\* C1: after any sequence of on_food_add, on_drink_add, remove_selected_cart
\* and clear_cart, the total shown by update_cart_view is the sum of
\* unit price x quantity over the lines the cart holds, and 0 for an empty cart.
C1_TotalShown ==
    /\ total_var = LineSum(cart)
    /\ cart = <<>> => total_var = 0
    /\ Len(cart_tree) = Len(cart)

\* the cart view shows a drink line followed by a food line
C1_Witness ==
    /\ Len(cart) = 2
    /\ cart[1].typ = "drink" /\ cart[2].typ = "food"
    /\ total_var = 2 * 3 + 12 * 2

\* C2: the totalcost of the order row a successful checkout stores is the sum
\* of unit price x quantity over the cart's lines at the time of placement,
\* with the prices the lines took when they were added.
C2_OrderTotal ==
    /\ pc = "payment" =>
         \E o \in Rows(conn.orders) : o.ordid = Val(ordid) /\ o.totalcost = LineSum(cart)
    /\ pc = "placed" =>
         \E o \in Rows(db.orders) : o.ordid = Val(ordid) /\ o.totalcost = LineSum(cart)

\* an order of 2 x food 1 (12) and 3 x drink 1 (2) has been committed
C2_Witness ==
    /\ pc = "placed"
    /\ Len(cart) = 2
    /\ \E o \in Rows(db.orders) : o.ordid = Val(ordid) /\ o.totalcost = 30

\* C3: no food row ever has a negative stock quantity.
C3_StockNeverNegative ==
    \A f \in DOMAIN db.food : StockNum(db.food[f].quantity) >= 0

\* C4: the commit of a successful checkout leaves, for every food with a line
\* in the cart, the stock max(0, stock before - summed quantity of its lines)
\* (an absent stock counting as 0), and leaves every other food row and every
\* drink row as it was.
C4_StockDecrement ==
    [][ (pc = "payment" /\ pc' = "placed") =>
          /\ DOMAIN db'.food = DOMAIN db.food
          /\ \A f \in DOMAIN db.food :
               IF FoodLinesOf(cart, f) = {}
               THEN db'.food[f] = db.food[f]
               ELSE /\ db'.food[f].price = db.food[f].price
                    /\ db'.food[f].quantity =
                         Some(Max0(StockNum(db.food[f].quantity) - QtySum(cart, FoodLinesOf(cart, f))))
          /\ db'.drink = db.drink ]_vars

\* two lines of 2 x food 6 were checked out against a stock of 2 (the menu
\* still shows it): the stock is clamped at 0
C4_Witness ==
    /\ pc = "placed"
    /\ Len(cart) = 2
    /\ FoodLinesOf(cart, 6) = {1, 2}
    /\ food_tree[6].qty = "2"
    /\ db.food[6].quantity = Some(0)

\* an answer to the customer dialogs that validation rejects in the current state
Rejectable(i) ==
    \/ cart = <<>>
    \/ i[1] # None /\ Val(i[1]) \notin db.customer
    \/ i[1] = None /\ i[2] /\ \E k \in 1 .. 4 : i[3][k] = ""

\* C5: a checkout rejected by validation (empty cart, customer id not in the
\* customer table, new customer with a required field missing) stops at its
\* message box and writes nothing: customer, orders, payment and food are as
\* before, and stay so when the box is dismissed.
C5_RejectedWritesNothing ==
    [][ /\ \A i \in CustomerInputs :
             (place_order_flow_customer(i[1], i[2], i[3]) /\ Rejectable(i)) =>
                 (pc' \in RejectBoxes /\ db' = db)
        /\ pc \in RejectBoxes => db' = db ]_vars

\* the 'All fields required' box of a new customer without a phone is open
\* over a non-empty cart
C5_Witness ==
    /\ pc = "box Error"
    /\ cart # <<>>
    /\ db = init_db

\* C6: the delivery selection is optional: when the delivery dialog is
\* declined (or the catalog is empty) the checkout goes on to insert the
\* order, with its delivery reference unset.
C6_DeclinedDeliveryProceeds ==
    [][ place_order_flow_delivery(None) =>
          /\ pc' = "payment"
          /\ \E o \in Rows(conn'.orders) : o.ordid = Val(ordid') /\ o.delid = None ]_vars

\* the order of the running checkout, in a store
HasOrder(store, id) == \E o \in Rows(store.orders) : o.ordid = id
HasPayment(store, id) == \E p \in Rows(store.payment) : p.ordid = id

\* C7 as stated: after a failure that follows the order insert, the order row
\* is persisted in the store (without payment row or stock adjustment).
C7_OrderSurvivesFailure ==
    (pc = "raised" /\ ordid # None) => HasOrder(db, Val(ordid))

\* C7 amended: the order insert, the payment insert and the stock updates are
\* one transaction, committed once at the end: after a failure that follows
\* the order insert the store holds neither the order row nor a payment row
\* for it, and the food stock is the one the menu was loaded from.
C7_FailureLeavesNoOrder ==
    (pc = "raised" /\ ordid # None) =>
        /\ HasOrder(conn, Val(ordid))
        /\ ~HasOrder(db, Val(ordid))
        /\ ~HasPayment(db, Val(ordid))
        /\ load_menu(db) = food_tree

\* a statement after the order insert has raised, in a checkout that had
\* created its customer
C7_Witness ==
    /\ pc = "raised"
    /\ ordid # None
    /\ custid = Some(6)
    /\ 6 \in db.customer

\* the first line of kind typ in c is line i
IsFirstOf(c, typ, i) == c[i].typ = typ /\ \A j \in 1 .. i - 1 : c[j].typ # typ

\* the order row o names the first line of kind typ, or none when there is none
NamesFirst(c, typ, ref) ==
    IF \E i \in 1 .. Len(c) : c[i].typ = typ
    THEN \E i \in 1 .. Len(c) : IsFirstOf(c, typ, i) /\ ref = Some(c[i].id)
    ELSE ref = None

\* C8: the order row of a checkout references the first food line's id and
\* the first drink line's id in cart order, each unset when the cart has no
\* line of the kind.
C8_FirstIds ==
    /\ pc = "payment" =>
         \E o \in Rows(conn.orders) :
            /\ o.ordid = Val(ordid)
            /\ NamesFirst(cart, "food", o.foodid)
            /\ NamesFirst(cart, "drink", o.drinkid)
    /\ pc = "placed" =>
         \E o \in Rows(db.orders) :
            /\ o.ordid = Val(ordid)
            /\ NamesFirst(cart, "food", o.foodid)
            /\ NamesFirst(cart, "drink", o.drinkid)

\* an order of food 1 followed by food 6 has been committed: no drink on it
C8_Witness ==
    /\ pc = "placed"
    /\ Len(cart) = 2
    /\ cart[1].typ = "food" /\ cart[1].id = 1
    /\ cart[2].typ = "food" /\ cart[2].id = 6
    /\ \E o \in Rows(db.orders) : o.foodid = Some(1) /\ o.drinkid = None

\* C9: every payment row references one existing order row and one existing
\* customer row; a committed checkout has added exactly one payment row for
\* its order, and that row names the customer the checkout resolved.
C9_PaymentReferences ==
    /\ \A p \in Rows(db.payment) :
         /\ p.custid \in db.customer
         /\ Cardinality({ o \in Rows(db.orders) : o.ordid = p.ordid }) = 1
    /\ pc = "placed" =>
         /\ Cardinality({ i \in 1 .. Len(db.payment) : db.payment[i].ordid = Val(ordid) }) = 1
         /\ \A p \in Rows(db.payment) : p.ordid = Val(ordid) => p.custid = Val(custid)
         /\ HasOrder(db, Val(ordid))

\* all customers were deleted after an order was paid: the order is there,
\* the payment went with its customer
C9_Witness ==
    /\ pc = "idle"
    /\ db.customer = {}
    /\ db.orders # <<>>
    /\ db.payseq = 1
    /\ db.payment = <<>>

\* C10: the handler returns from a placed order with the cart empty, and the
\* cart of a running checkout is emptied only once the order, the payment and
\* the stock changes are committed.
C10_CartClearedAfterCommit ==
    [][ /\ (pc = "placed" /\ pc' = "idle") => (cart' = <<>> /\ total_var' = 0 /\ cart_tree' = <<>>)
        /\ (pc # "idle" /\ cart # <<>> /\ cart' = <<>>) =>
              /\ pc = "placed"
              /\ conn = Closed
              /\ HasOrder(db, Val(ordid))
              /\ HasPayment(db, Val(ordid)) ]_vars

\* the order is committed and the cart not yet emptied
C10_Witness ==
    /\ pc = "placed"
    /\ cart # <<>>
    /\ HasOrder(db, Val(ordid))
    /\ HasPayment(db, Val(ordid))
TableRows(store) ==
    <<store.customer, store.food, store.drink, store.delivery, store.orders, store.payment>>

\* C12 as stated: a run of init_db on a store an earlier run has initialised
\* raises no error and leaves the rows of every table as they were.
C12_RerunChangesNoTable ==
    [][ main => pc' # "exit" /\ TableRows(db') = TableRows(db) ]_vars

\* C12: a run of init_db on a store an earlier run has initialised raises no
\* error and leaves every table that holds rows as it was, so that no seed row
\* is duplicated; a seeded table that holds no row, which the customer table
\* is after reset_customers, gets its sample rows again, under custids never
\* used before.
C12_RerunSeedsOnlyEmptyTables ==
    [][ main =>
          /\ pc' # "exit"
          /\ db'.food = db.food /\ db'.drink = db.drink /\ db'.delivery = db.delivery
          /\ db'.orders = db.orders /\ db'.payment = db.payment
          /\ db.customer # {} => db'.customer = db.customer
          /\ db.customer = {} =>
                /\ Cardinality(db'.customer) = Cardinality(SeedCustomer)
                /\ \A c \in db'.customer : c > db.custseq ]_vars

\* the program has been started again after reset_customers: the sample
\* customers are back under the custids of a second seeding
C12_Witness ==
    /\ pc = "idle"
    /\ db.customer # {}
    /\ db.custseq >= 2 * Cardinality(SeedCustomer)
    /\ \A c \in db.customer : c \notin SeedCustomer

\* C13: a run of place_order_flow that has inserted a new customer row ends
\* with an order row and a payment row linking that customer to the order in
\* the store; if it ends without an order placed (the delivery dialog
\* dismissed, for one), the customer table holds no row it did not hold before
\* the run, so the new custid is not in it.
C13_NewCustomerOnlyWithOrder ==
    [][ (pc # "idle" /\ pc' = "idle" /\ create /\ custid # None) =>
          \/ \E p \in Rows(db'.payment) :
                p.custid = Val(custid) /\ HasOrder(db', p.ordid)
          \/ Val(custid) \notin db'.customer ]_vars

====
